---- MODULE Spec2Model ----
(***************************************************************************)
(* State-machine model of trax.rl.base_trainer.BaseTrainer:                *)
(* the train_env setter and its compatibility check, reset,                *)
(* dump_trajectories (buffer, merge-on-write shards), training_loop and    *)
(* indicate_done.  The environment's trajectory store and the file system  *)
(* (tf.io.gfile) are part of the state.                                    *)
(***************************************************************************)
EXTENDS Integers, Sequences, FiniteSets, TLC

\* ---------------------------------------------------------------- bounds
MaxTrajectories == 2   \* trajectory objects the environments ever create
MaxMinCount == 2       \* largest trajectory_dump_min_count_per_shard tried
MaxEpoch == 4          \* cap of the epoch counter inside training_loop
MaxCallerEpoch == 2    \* cap of the epoch counter for the caller's train_epoch
MaxNEpochs == 2        \* largest n_epochs passed to training_loop
MaxAdvance == 2        \* largest per-call advance of the epoch counter

\* ------------------------------------------------------------- constants
None == "None"
DumpDir == "dump"
OutDir == "out"

NoError == "none"

\* ------------------------------------------------------------ environments
\* Six environment objects; each exposes action_space and observation_space
\* (shape, dtype).  env1 and env2 have identical spaces, env3..env6 differ from env1
\* in exactly one of action shape, action dtype, observation shape,
\* observation dtype.
Envs == {"env1", "env2", "env3", "env4", "env5", "env6"}

Box(shape, dtype) == [shape |-> shape, dtype |-> dtype]

env_action_space(e) ==
  CASE e = "env3" -> Box(<<6>>, "float32")
    [] e = "env4" -> Box(<<4>>, "int32")
    [] OTHER -> Box(<<4>>, "float32")

env_observation_space(e) ==
  CASE e = "env5" -> Box(<<8, 8>>, "float32")
    [] e = "env6" -> Box(<<8>>, "uint8")
    [] OTHER -> Box(<<8>>, "float32")

\* time_steps of the trajectories an environment produces: the sequence of
\* the steps' actions.  <<>>: fresh trajectory; <<None>>: reset, only the
\* initial observation; <<"a", None>>: one action taken; <<None, "a">>: a
\* first step without action followed by a real one.
TimeStepSeqs == { <<>>, <<None>>, <<"a", None>>, <<None, "a">> }

\* ------------------------------------------------------------------ state
VARIABLES
  train_env,                \* self._train_env
  action_space,             \* self._action_space
  observation_space,        \* self._observation_space
  should_reset_train_env,   \* self._should_reset_train_env
  trajectory_dump_dir,      \* self.trajectory_dump_dir
  min_count_per_shard,      \* self._trajectory_dump_min_count_per_shard
  trajectory_buffer,        \* self._trajectory_buffer
  async_mode,               \* self._async_mode
  output_dir,               \* self._output_dir
  trainer_reset_called,     \* self._trainer_reset_called
  overridden,               \* the hooks are overridden by a concrete trainer
  epoch,                    \* value of the epoch property (concrete trainer)
  epoch_advance,            \* how much the train_epoch hook advances epoch
  completed,                \* env -> trajectories.completed_trajectories
  open,                     \* env -> the store's unfinished trajectories
  next_id,                  \* identity of the next trajectory object
  dirs,                     \* gfile: existing directories
  shards,                   \* gfile: <<dir, epoch>> -> pickled <epoch>.pkl
  done,                     \* gfile: directories holding __done__
  pc,                       \* position inside training_loop, or "idle"
  tl,                       \* training_loop locals: n_epochs, evaluate, i
  last                      \* the trainer operation executed last

vars == << train_env, action_space, observation_space, should_reset_train_env,
           trajectory_dump_dir, min_count_per_shard, trajectory_buffer,
           async_mode, output_dir, trainer_reset_called, overridden, epoch,
           epoch_advance, completed, open, next_id, dirs, shards, done,
           pc, tl, last >>

binding_vars == << train_env, action_space, observation_space,
                   should_reset_train_env >>
config_vars == << trajectory_dump_dir, min_count_per_shard, async_mode,
                  overridden, epoch_advance >>
static_vars == << trajectory_dump_dir, min_count_per_shard, overridden,
                  epoch_advance >>
store_vars == << completed, open, next_id >>
reset_vars == << output_dir, trainer_reset_called >>

\* ---------------------------------------------------------------- helpers
Max(a, b) == IF a >= b THEN a ELSE b

Elements(seq) == { seq[i] : i \in DOMAIN seq }

Occurrences(t, seq) == Cardinality({ i \in DOMAIN seq : seq[i] = t })

RemoveAt(seq, i) == SubSeq(seq, 1, i - 1) \o SubSeq(seq, i + 1, Len(seq))

\* utils.get_pickle_module(): dump serialises a list, load reads it back
pkl_dump(objs) == [format |-> "pkl", count |-> Len(objs), objs |-> objs]

pkl_load(bytes) == bytes.objs

\* os.path.join(self.trajectory_dump_dir, '{}.pkl'.format(self.epoch))
shard_path(dir, e) == << dir, e >>

gfile_exists(path) == path \in DOMAIN shards

\* ------------------------------------------------------- train_env setter
\* variant: the element types are not compared
assert_same_space_shape_only(space1, space2) ==
  space1.shape = space2.shape

assert_same_space(space1, space2) ==
  /\ space1.shape = space2.shape
  /\ space1.dtype = space2.dtype

\* variant: the action space is not compared
assert_env_compatible_observation_only(new_env) ==
  assert_same_space(env_observation_space(new_env), observation_space)

\* TRUE iff no assertion of _assert_env_compatible fails
assert_env_compatible(new_env) ==
  /\ assert_same_space(env_observation_space(new_env), observation_space)
  /\ assert_same_space(env_action_space(new_env), action_space)

\* variant: the environment is assigned before it is checked
train_env_setter_assign_first(new_train_env) ==
  [train_env |-> new_train_env,
   action_space |-> IF train_env = None THEN env_action_space(new_train_env)
                    ELSE action_space,
   observation_space |-> IF train_env = None
                           THEN env_observation_space(new_train_env)
                         ELSE observation_space,
   should_reset |-> TRUE,
   raised |-> IF train_env = None \/ assert_env_compatible(new_train_env)
                THEN NoError ELSE "AssertionError"]

\* the setter: new values of the binding, and the exception raised
train_env_setter(new_train_env) ==
  IF train_env = None
    THEN [train_env |-> new_train_env,
          action_space |-> env_action_space(new_train_env),
          observation_space |-> env_observation_space(new_train_env),
          should_reset |-> TRUE, raised |-> NoError]
    ELSE IF assert_env_compatible(new_train_env)
      THEN [train_env |-> new_train_env,
            action_space |-> action_space,
            observation_space |-> observation_space,
            should_reset |-> TRUE, raised |-> NoError]
      ELSE [train_env |-> train_env,
            action_space |-> action_space,
            observation_space |-> observation_space,
            should_reset |-> should_reset_train_env,
            raised |-> "AssertionError"]

\* ------------------------------------------------------------------ reset
reset(arg) ==
  LET od == IF arg # None THEN arg ELSE output_dir
  IN [trainer_reset_called |-> TRUE,
      output_dir |-> od,
      dirs |-> IF od # None THEN dirs \cup {od} ELSE dirs,
      raised |-> IF od # None THEN NoError ELSE "AssertionError"]

\* ------------------------------------------------------ dump_trajectories
\* variant: the action of the first step is not looked at
has_any_action_nonempty(trajectory) ==
  Len(trajectory.time_steps) > 0

has_any_action(trajectory) ==
  /\ Len(trajectory.time_steps) > 0
  /\ trajectory.time_steps[1] # None

\* trajectories.complete_all_trajectories(): every unfinished trajectory of
\* the store becomes a completed one
complete_all_trajectories(store) ==
  [completed |-> store.completed \o store.open, open |-> << >>]

\* trajectories.clear_completed_trajectories()
clear_completed_trajectories(store) ==
  [completed |-> << >>, open |-> store.open]

\* variant: the buffer is assigned instead of extended
extend_buffer_replace(buffer, completed_trajectories) ==
  SelectSeq(completed_trajectories, has_any_action)

extend_buffer(buffer, completed_trajectories) ==
  buffer \o SelectSeq(completed_trajectories, has_any_action)

\* variant: ready one trajectory early
ready_off_by_one(buffer) == Len(buffer) + 1 >= min_count_per_shard

\* variant: a buffer holding exactly the minimum is not ready
ready_strict(buffer) == Len(buffer) > min_count_per_shard

ready(buffer) == Len(buffer) >= min_count_per_shard

\* variant: force does not write an under-filled buffer
should_write_ready_only(buffer, force) == ready(buffer)

\* line 164: if ready or force
should_write(buffer, force) == ready(buffer) \/ force

\* variant: the existing shard is put after the buffer
merge_shard_append(path, buffer) ==
  IF gfile_exists(path) THEN buffer \o pkl_load(shards[path]) ELSE buffer

\* variant: the existing shard is not read, the buffer replaces it
merge_shard_overwrite(path, buffer) == buffer

\* lines 167-172: the buffer to write, merged with an existing shard
merge_shard(path, buffer) ==
  IF gfile_exists(path) THEN pkl_load(shards[path]) \o buffer ELSE buffer

\* lines 173-174: the shard files after writing the buffer at path
write_shard(path, buffer) ==
  [p \in DOMAIN shards \cup {path} |->
     IF p = path THEN pkl_dump(buffer) ELSE shards[p]]

\* variant: the test of the dump directory is missing
no_dump_dir_never == FALSE

\* line 142: if self.trajectory_dump_dir is None
no_dump_dir == trajectory_dump_dir = None

\* the whole method: new values of everything it touches, the exception
\* raised, and what the call did (wrote: a shard file was written; existed:
\* that file existed before; count: len(self._trajectory_buffer) at line 162)
dump_trajectories(force) ==
  LET store0 == [completed |-> completed[train_env], open |-> open[train_env]]
      store1 == IF force THEN complete_all_trajectories(store0) ELSE store0
      buffer1 == extend_buffer(trajectory_buffer, store1.completed)
      store2 == clear_completed_trajectories(store1)
      dirs1 == dirs \cup {trajectory_dump_dir}
      path == shard_path(trajectory_dump_dir, epoch)
      buffer2 == merge_shard(path, buffer1)
      harvested == [buffer |-> buffer1, completed |-> store2.completed,
                    open |-> store2.open, dirs |-> dirs1, shards |-> shards,
                    raised |-> NoError, wrote |-> FALSE, existed |-> FALSE,
                    count |-> Len(buffer1)]
  IN IF no_dump_dir
       THEN [buffer |-> trajectory_buffer, completed |-> store0.completed,
             open |-> store0.open, dirs |-> dirs, shards |-> shards,
             raised |-> NoError, wrote |-> FALSE, existed |-> FALSE,
             count |-> 0]
     ELSE IF ~should_write(buffer1, force) THEN harvested
     ELSE IF ~overridden   \* self.epoch raises
       THEN [harvested EXCEPT !.raised = "NotImplementedError"]
     ELSE [harvested EXCEPT !.buffer = << >>,
                            !.shards = write_shard(path, buffer2),
                            !.wrote = TRUE, !.existed = gfile_exists(path)]

\* ---------------------------------------------------------- indicate_done
\* variant: the marker is written in every mode
indicate_done_always ==
  IF output_dir = None THEN [done |-> done, raised |-> "TypeError"]
  ELSE IF output_dir \notin dirs THEN [done |-> done, raised |-> "NotFoundError"]
  ELSE [done |-> done \cup {output_dir}, raised |-> NoError]

indicate_done ==
  IF ~async_mode THEN [done |-> done, raised |-> NoError]
  ELSE IF output_dir = None THEN [done |-> done, raised |-> "TypeError"]
  ELSE IF output_dir \notin dirs THEN [done |-> done, raised |-> "NotFoundError"]
  ELSE [done |-> done \cup {output_dir}, raised |-> NoError]

\* ------------------------------------------------------------------ hooks
\* epoch, train_epoch, evaluate, save, maybe_save, flush_summaries raise
\* NotImplementedError unless a concrete trainer overrides them
Hooks ==
  {"epoch", "train_epoch", "evaluate", "save", "maybe_save", "flush_summaries"}

\* variant: a hook that is not overridden returns without doing anything
hook_silent == NoError

hook_raised == IF overridden THEN NoError ELSE "NotImplementedError"

\* ----------------------------------------------------------- training_loop
TLIdle == [n_epochs |-> 0, evaluate |-> FALSE, start |-> 0, i |-> 0]

\* variant: the forced dump comes before save
next_statement_dump_before_save(p, more, ev) ==
  CASE p = "reset" -> "range"
    [] p = "range" -> IF more THEN "train_epoch" ELSE "final_dump"
    [] p = "train_epoch" -> "maybe_save"
    [] p = "maybe_save" -> "dump"
    [] p = "dump" -> IF more THEN "train_epoch" ELSE "final_dump"
    [] p = "final_dump" -> "save"
    [] p = "save" -> IF ev THEN "evaluate" ELSE "flush_summaries"
    [] p = "evaluate" -> "flush_summaries"
    [] p = "flush_summaries" -> "indicate_done"
    [] OTHER -> "idle"

\* variant: the marker is written before the forced dump
next_statement_done_before_dump(p, more, ev) ==
  CASE p = "reset" -> "range"
    [] p = "range" -> IF more THEN "train_epoch" ELSE "save"
    [] p = "train_epoch" -> "maybe_save"
    [] p = "maybe_save" -> "dump"
    [] p = "dump" -> IF more THEN "train_epoch" ELSE "save"
    [] p = "save" -> "indicate_done"
    [] p = "indicate_done" -> "final_dump"
    [] p = "final_dump" -> IF ev THEN "evaluate" ELSE "flush_summaries"
    [] p = "evaluate" -> "flush_summaries"
    [] OTHER -> "idle"

\* variant: the loop body runs once before the range is tested
next_statement_loop_first(p, more, ev) ==
  CASE p = "reset" -> "range"
    [] p = "range" -> "train_epoch"
    [] p = "train_epoch" -> "maybe_save"
    [] p = "maybe_save" -> "dump"
    [] p = "dump" -> IF more THEN "train_epoch" ELSE "save"
    [] p = "save" -> "final_dump"
    [] p = "final_dump" -> IF ev THEN "evaluate" ELSE "flush_summaries"
    [] p = "evaluate" -> "flush_summaries"
    [] p = "flush_summaries" -> "indicate_done"
    [] OTHER -> "idle"

\* the statement of training_loop that follows statement p when p returns;
\* more: the for loop has another element; ev: the evaluate argument
next_statement(p, more, ev) ==
  CASE p = "reset" -> "range"
    [] p = "range" -> IF more THEN "train_epoch" ELSE "save"
    [] p = "train_epoch" -> "maybe_save"
    [] p = "maybe_save" -> "dump"
    [] p = "dump" -> IF more THEN "train_epoch" ELSE "save"
    [] p = "save" -> "final_dump"
    [] p = "final_dump" -> IF ev THEN "evaluate" ELSE "flush_summaries"
    [] p = "evaluate" -> "flush_summaries"
    [] p = "flush_summaries" -> "indicate_done"
    [] OTHER -> "idle"

\* variant: the range includes its stop value
range_has_inclusive(i, n_epochs) == i <= n_epochs

\* i is an element of range(start, n_epochs), start <= i
range_has(i, n_epochs) == i < n_epochs

\* variant: training_loop never resets
first_statement_no_reset(reset_called) == "range"

\* lines 179-181: the first statement executed by training_loop
first_statement(reset_called) == IF reset_called THEN "range" ELSE "reset"

\* record of a trainer operation other than dump_trajectories; in_loop: it
\* is a statement of training_loop
Called(op, raised) ==
  [op |-> op, in_loop |-> pc # "idle", force |-> FALSE, raised |-> raised,
   wrote |-> FALSE, merged |-> "no", added |-> FALSE]

\* record of a dump_trajectories call with result r.  merged: whether the
\* shard written existed before and, if so, whether it was written by a
\* non-forced dump that came just before (no operation in between, so at
\* the same epoch); added: the call had trajectories of its own to write
Dumped(force, r) ==
  [op |-> "dump_trajectories", in_loop |-> pc # "idle", force |-> force,
   raised |-> r.raised,
   wrote |-> r.wrote,
   merged |-> IF ~(r.wrote /\ r.existed) THEN "no"
              ELSE IF last.op = "dump_trajectories" /\ ~last.force /\ last.wrote
                     THEN "periodic" ELSE "other",
   added |-> r.wrote /\ r.count > 0]

\* a statement of training_loop returned (go on) or raised (the call ends)
Continue(raised, more) ==
  /\ pc' = IF raised = NoError THEN next_statement(pc, more, tl.evaluate)
           ELSE "idle"
  /\ tl' = IF pc' = "idle" THEN TLIdle ELSE tl

ApplyDump(r) ==
  /\ trajectory_buffer' = r.buffer
  /\ completed' = [completed EXCEPT ![train_env] = r.completed]
  /\ open' = [open EXCEPT ![train_env] = r.open]
  /\ dirs' = r.dirs
  /\ shards' = r.shards

ApplyReset(r) ==
  /\ trainer_reset_called' = r.trainer_reset_called
  /\ output_dir' = r.output_dir
  /\ dirs' = r.dirs

\* the train_epoch hook of a concrete trainer: interacts with the train
\* environment (resetting it when asked to) and advances the epoch counter
ApplyTrainEpoch ==
  /\ epoch' = IF overridden THEN epoch + epoch_advance ELSE epoch
  /\ should_reset_train_env' =
       IF overridden THEN FALSE ELSE should_reset_train_env

\* ------------------------------------------------------------------- Init
\* the state after __init__(train_env, eval_env, output_dir,
\* trajectory_dump_dir, trajectory_dump_min_count_per_shard, async_mode)
Constructed(first_envs) ==
  /\ \E e \in first_envs :
       /\ train_env = e
       /\ action_space = env_action_space(e)
       /\ observation_space = env_observation_space(e)
  /\ should_reset_train_env = TRUE
  /\ trajectory_dump_dir \in {None, DumpDir}
  /\ min_count_per_shard \in 1..MaxMinCount
  /\ trajectory_buffer = << >>
  /\ async_mode \in BOOLEAN
  /\ output_dir \in {None, OutDir}
  /\ trainer_reset_called = FALSE
  /\ overridden \in BOOLEAN
  /\ epoch = 0
  /\ epoch_advance \in 0..MaxAdvance
  /\ completed = [e \in Envs |-> << >>]
  /\ open = [e \in Envs |-> << >>]
  /\ dirs = {}
  /\ shards = << >>
  /\ done = {}
  /\ pc = "idle"
  /\ tl = TLIdle
  /\ last = Called("__init__", NoError)

\* ------------------------------------------------------------ environment
\* the environment starts a trajectory (the store's open set grows)
EnvStart(ts) ==
  /\ pc \in {"idle", "train_epoch"}
  /\ next_id <= MaxTrajectories
  /\ open' = [open EXCEPT ![train_env] =
                Append(@, [id |-> next_id, time_steps |-> ts])]
  /\ next_id' = next_id + 1
  /\ UNCHANGED << binding_vars, config_vars, reset_vars, trajectory_buffer,
                  epoch, completed, dirs, shards, done, pc, tl, last >>

\* the environment completes the i-th open trajectory
EnvComplete(i) ==
  /\ pc \in {"idle", "train_epoch"}
  /\ i \in DOMAIN open[train_env]
  /\ completed' = [completed EXCEPT ![train_env] =
                     Append(@, open[train_env][i])]
  /\ open' = [open EXCEPT ![train_env] = RemoveAt(@, i)]
  /\ UNCHANGED << binding_vars, config_vars, reset_vars, trajectory_buffer,
                  epoch, next_id, dirs, shards, done, pc, tl, last >>

\* ------------------------------------------------- calls made by the caller
SetTrainEnv(new_train_env) ==
  /\ pc = "idle"
  /\ LET r == train_env_setter(new_train_env)
     IN /\ train_env' = r.train_env
        /\ action_space' = r.action_space
        /\ observation_space' = r.observation_space
        /\ should_reset_train_env' = r.should_reset
        /\ last' = Called("train_env", r.raised)
  /\ UNCHANGED << config_vars, reset_vars, store_vars, trajectory_buffer,
                  epoch, dirs, shards, done, pc, tl >>

SetAsyncMode(b) ==
  /\ pc = "idle"
  /\ async_mode' = b
  /\ last' = Called("async_mode", NoError)
  /\ UNCHANGED << binding_vars, static_vars, reset_vars, store_vars,
                  trajectory_buffer, epoch, dirs, shards, done, pc, tl >>

Reset(arg) ==
  /\ pc = "idle"
  /\ LET r == reset(arg)
     IN ApplyReset(r) /\ last' = Called("reset", r.raised)
  /\ UNCHANGED << binding_vars, config_vars, store_vars, trajectory_buffer,
                  epoch, shards, done, pc, tl >>

DumpTrajectories(force) ==
  /\ pc = "idle"
  /\ LET r == dump_trajectories(force)
     IN ApplyDump(r) /\ last' = Dumped(force, r)
  /\ UNCHANGED << binding_vars, config_vars, reset_vars, epoch, next_id,
                  done, pc, tl >>

TrainEpoch ==
  /\ pc = "idle"
  /\ epoch + epoch_advance <= MaxCallerEpoch
  /\ ApplyTrainEpoch
  /\ last' = Called("train_epoch", hook_raised)
  /\ UNCHANGED << train_env, action_space, observation_space, config_vars,
                  reset_vars, store_vars, trajectory_buffer, dirs, shards,
                  done, pc, tl >>

\* the caller reads epoch or calls evaluate, save, maybe_save or
\* flush_summaries; what a concrete trainer's hook does there is outside the
\* state of the base class
CallHook(h) ==
  /\ pc = "idle"
  /\ h \in Hooks \ {"train_epoch"}
  /\ last' = Called(h, hook_raised)
  /\ UNCHANGED << binding_vars, config_vars, reset_vars, store_vars,
                  trajectory_buffer, epoch, dirs, shards, done, pc, tl >>

IndicateDone ==
  /\ pc = "idle"
  /\ LET r == indicate_done
     IN done' = r.done /\ last' = Called("indicate_done", r.raised)
  /\ UNCHANGED << binding_vars, config_vars, reset_vars, store_vars,
                  trajectory_buffer, epoch, dirs, shards, pc, tl >>

TrainingLoop(n_epochs, evaluate) ==
  /\ pc = "idle"
  /\ pc' = first_statement(trainer_reset_called)
  /\ tl' = [n_epochs |-> n_epochs, evaluate |-> evaluate, start |-> 0, i |-> 0]
  /\ last' = Called("training_loop", NoError)
  /\ UNCHANGED << binding_vars, config_vars, reset_vars, store_vars,
                  trajectory_buffer, epoch, dirs, shards, done >>

\* ----------------------------------------------- statements of training_loop
TLReset ==
  /\ pc = "reset"
  /\ LET r == reset(output_dir)
     IN /\ ApplyReset(r)
        /\ last' = Called("reset", r.raised)
        /\ Continue(r.raised, FALSE)
  /\ UNCHANGED << binding_vars, config_vars, store_vars, trajectory_buffer,
                  epoch, shards, done >>

\* for _ in range(self.epoch, n_epochs): the range is built once
TLRange ==
  /\ pc = "range"
  /\ last' = Called("epoch", hook_raised)
  /\ pc' = IF hook_raised = NoError
             THEN next_statement(pc, range_has(epoch, tl.n_epochs), tl.evaluate)
             ELSE "idle"
  /\ tl' = IF hook_raised = NoError
             THEN [tl EXCEPT !.start = epoch, !.i = epoch]
             ELSE TLIdle
  /\ UNCHANGED << binding_vars, config_vars, reset_vars, store_vars,
                  trajectory_buffer, epoch, dirs, shards, done >>

TLTrainEpoch ==
  /\ pc = "train_epoch"
  /\ epoch + epoch_advance <= MaxEpoch
  /\ ApplyTrainEpoch
  /\ last' = Called("train_epoch", hook_raised)
  /\ Continue(hook_raised, FALSE)
  /\ UNCHANGED << train_env, action_space, observation_space, config_vars,
                  reset_vars, store_vars, trajectory_buffer, dirs, shards,
                  done >>

TLMaybeSave ==
  /\ pc = "maybe_save"
  /\ last' = Called("maybe_save", hook_raised)
  /\ Continue(hook_raised, FALSE)
  /\ UNCHANGED << binding_vars, config_vars, reset_vars, store_vars,
                  trajectory_buffer, epoch, dirs, shards, done >>

TLDump ==
  /\ pc = "dump"
  /\ LET r == dump_trajectories(FALSE)
         more == range_has(tl.i + 1, tl.n_epochs)
     IN /\ ApplyDump(r)
        /\ last' = Dumped(FALSE, r)
        /\ pc' = IF r.raised = NoError
                   THEN next_statement(pc, more, tl.evaluate) ELSE "idle"
        /\ tl' = IF r.raised # NoError THEN TLIdle
                 ELSE IF more THEN [tl EXCEPT !.i = @ + 1] ELSE tl
  /\ UNCHANGED << binding_vars, config_vars, reset_vars, epoch, next_id,
                  done >>

TLSave ==
  /\ pc = "save"
  /\ last' = Called("save", hook_raised)
  /\ Continue(hook_raised, FALSE)
  /\ UNCHANGED << binding_vars, config_vars, reset_vars, store_vars,
                  trajectory_buffer, epoch, dirs, shards, done >>

TLFinalDump ==
  /\ pc = "final_dump"
  /\ LET r == dump_trajectories(TRUE)
     IN /\ ApplyDump(r)
        /\ last' = Dumped(TRUE, r)
        /\ Continue(r.raised, FALSE)
  /\ UNCHANGED << binding_vars, config_vars, reset_vars, epoch, next_id,
                  done >>

TLEvaluate ==
  /\ pc = "evaluate"
  /\ last' = Called("evaluate", hook_raised)
  /\ Continue(hook_raised, FALSE)
  /\ UNCHANGED << binding_vars, config_vars, reset_vars, store_vars,
                  trajectory_buffer, epoch, dirs, shards, done >>

TLFlushSummaries ==
  /\ pc = "flush_summaries"
  /\ last' = Called("flush_summaries", hook_raised)
  /\ Continue(hook_raised, FALSE)
  /\ UNCHANGED << binding_vars, config_vars, reset_vars, store_vars,
                  trajectory_buffer, epoch, dirs, shards, done >>

TLIndicateDone ==
  /\ pc = "indicate_done"
  /\ LET r == indicate_done
     IN /\ done' = r.done
        /\ last' = Called("indicate_done", r.raised)
        /\ Continue(r.raised, FALSE)
  /\ UNCHANGED << binding_vars, config_vars, reset_vars, store_vars,
                  trajectory_buffer, epoch, dirs, shards >>

\* --------------------------------------------------------- specifications
\* Spec: a trainer driven through the async_mode setter, reset,
\* dump_trajectories, indicate_done, the hooks and training_loop, on an
\* environment that produces one trajectory.
Init ==
  /\ Constructed({"env1"})
  /\ next_id = MaxTrajectories

Next ==
  \/ \E ts \in TimeStepSeqs : EnvStart(ts)
  \/ \E i \in 1..MaxTrajectories : EnvComplete(i)
  \/ \E b \in BOOLEAN : SetAsyncMode(b)
  \/ \E arg \in {None, OutDir} : Reset(arg)
  \/ \E force \in BOOLEAN : DumpTrajectories(force)
  \/ IndicateDone
  \/ TrainEpoch
  \/ \E h \in Hooks \ {"train_epoch"} : CallHook(h)
  \/ \E n \in 0..MaxNEpochs, ev \in BOOLEAN : TrainingLoop(n, ev)
  \/ TLReset
  \/ TLRange
  \/ TLTrainEpoch
  \/ TLMaybeSave
  \/ TLDump
  \/ TLSave
  \/ TLFinalDump
  \/ TLEvaluate
  \/ TLFlushSummaries
  \/ TLIndicateDone

Spec == Init /\ [][Next]_vars

\* SpecDump: a trainer constructed with the default output_dir and
\* async_mode, whose caller lets the environment produce trajectories,
\* advances the epoch and calls dump_trajectories.
InitDump ==
  /\ Constructed({"env1"})
  /\ async_mode = FALSE
  /\ output_dir = None
  /\ next_id = 1

NextDump ==
  \/ \E ts \in TimeStepSeqs : EnvStart(ts)
  \/ \E i \in 1..MaxTrajectories : EnvComplete(i)
  \/ \E force \in BOOLEAN : DumpTrajectories(force)
  \/ TrainEpoch

SpecDump == InitDump /\ [][NextDump]_vars

\* SpecBind: a trainer constructed on any of two first environments, with
\* the default output_dir and async_mode, whose caller binds environments,
\* lets the bound one produce a trajectory, calls train_epoch and
\* dump_trajectories.
InitBind ==
  /\ Constructed({"env1", "env3"})
  /\ async_mode = FALSE
  /\ output_dir = None
  /\ next_id = MaxTrajectories

NextBind ==
  \/ \E ts \in TimeStepSeqs : EnvStart(ts)
  \/ \E i \in 1..MaxTrajectories : EnvComplete(i)
  \/ \E e \in Envs : SetTrainEnv(e)
  \/ \E force \in BOOLEAN : DumpTrajectories(force)
  \/ TrainEpoch

SpecBind == InitBind /\ [][NextBind]_vars

\* ================================================================= claims
\* vocabulary of the claims, stated on the stored data only

\* a trajectory is non-degenerate: it has a first TimeStep, with an action
NonDegenerate(t) == t.time_steps # << >> /\ Head(t.time_steps) # None

ShardContent(p) == pkl_load(shards[p])

\* how many times trajectory t occurs in the buffer and in all the shards
Stored(t) ==
  Occurrences(t, trajectory_buffer)
  + Cardinality(UNION { { << p, i >> : i \in { j \in DOMAIN ShardContent(p) :
                                                 ShardContent(p)[j] = t } } :
                        p \in DOMAIN shards })

StoredTrajectories ==
  Elements(trajectory_buffer)
  \cup UNION { Elements(ShardContent(p)) : p \in DOMAIN shards }

\* the step is a call of dump_trajectories(force), by the caller or by
\* training_loop
DumpStep(force) ==
  \/ DumpTrajectories(force)
  \/ force /\ TLFinalDump
  \/ ~force /\ TLDump

\* the non-degenerate trajectories a dump_trajectories(force) call has to
\* store, in harvest order: the buffered ones, the completed ones and, when
\* forced, the open ones
Contribution(force) ==
  trajectory_buffer
  \o SelectSeq(completed[train_env], NonDegenerate)
  \o (IF force THEN SelectSeq(open[train_env], NonDegenerate) ELSE << >>)

\* C1: with a dump directory configured, after every dump_trajectories call
\* each non-degenerate trajectory that was in the environment's completed
\* set, in the buffer or in a shard when the call began occurs exactly once
\* in the buffer and the shards together
C1_NeverDroppedNeverDuplicated ==
  [][\A force \in BOOLEAN :
       (DumpStep(force) /\ trajectory_dump_dir # None) =>
         \A t \in { c \in Elements(completed[train_env]) : NonDegenerate(c) }
                  \cup StoredTrajectories :
           Stored(t)' = 1]_vars

\* C1 witness: a dump has left one trajectory in the buffer while another
\* one sits in a shard
C1_Witness ==
  /\ last.op = "dump_trajectories"
  /\ trajectory_buffer # << >>
  /\ \E p \in DOMAIN shards : ShardContent(p) # << >>

\* C2: a non-forced dump writes no shard while the buffered count after
\* harvesting is below the minimum, and then keeps the buffer populated;
\* every shard a non-forced dump writes holds at least the minimum count
C2_NoShardBelowMinimum ==
  [][(DumpStep(FALSE) /\ trajectory_dump_dir # None) =>
       /\ Len(Contribution(FALSE)) < min_count_per_shard =>
            /\ shards' = shards
            /\ trajectory_buffer' = Contribution(FALSE)
       /\ \A p \in DOMAIN shards' :
            (p \notin DOMAIN shards \/ shards'[p] # shards[p]) =>
              Len(ShardContent(p)') >= min_count_per_shard]_vars

\* C2 witness: a non-forced dump returned without writing and the buffer
\* holds trajectories, fewer than the minimum
C2_Witness ==
  /\ last.op = "dump_trajectories" /\ ~last.force /\ ~last.wrote
  /\ last.raised = NoError
  /\ Len(trajectory_buffer) > 0
  /\ Len(trajectory_buffer) < min_count_per_shard

\* C3: with a dump directory configured (and the epoch hook implemented), a
\* forced dump leaves no open trajectory in the store, leaves the buffer
\* empty and leaves a shard for the current epoch; with nothing new to add
\* that shard holds what it held before, or is empty
C3_ForcedDumpAlwaysWrites ==
  [][(DumpStep(TRUE) /\ trajectory_dump_dir # None /\ overridden) =>
       LET p == shard_path(trajectory_dump_dir, epoch)
       IN /\ open'[train_env] = << >>
          /\ trajectory_buffer' = << >>
          /\ p \in DOMAIN shards'
          /\ Contribution(TRUE) = << >> =>
               ShardContent(p)' =
                 IF p \in DOMAIN shards THEN ShardContent(p) ELSE << >>]_vars

\* C3 witness: a forced dump with nothing to add rewrote an existing shard
C3_Witness ==
  /\ last.op = "dump_trajectories" /\ last.force /\ last.wrote
  /\ ~last.added
  /\ last.merged # "no"
  /\ min_count_per_shard = MaxMinCount

\* C4: a forced dump that comes after a non-forced dump that wrote the
\* shard of the same epoch leaves that single shard holding the first
\* dump's content followed by its own trajectories in harvest order
C4_SameEpochMerge ==
  [][(/\ DumpStep(TRUE) /\ trajectory_dump_dir # None /\ overridden
      /\ last.op = "dump_trajectories" /\ ~last.force /\ last.wrote) =>
       LET p == shard_path(trajectory_dump_dir, epoch)
       IN /\ p \in DOMAIN shards
          /\ DOMAIN shards' = DOMAIN shards
          /\ ShardContent(p)' = ShardContent(p) \o Contribution(TRUE)
          /\ Len(ShardContent(p)') =
               Len(ShardContent(p)) + Len(Contribution(TRUE))
          /\ \A q \in DOMAIN shards \ {p} : shards'[q] = shards[q]]_vars

\* C4 witness: a forced dump with trajectories of its own merged into the
\* shard a non-forced dump had just written
C4_Witness ==
  /\ last.op = "dump_trajectories" /\ last.force
  /\ last.merged = "periodic"
  /\ last.added

\* C5: no degenerate trajectory is in the buffer or in a shard
C5_NoDegenerateStored == \A t \in StoredTrajectories : NonDegenerate(t)

\* identities of the trajectories the environment created that are nowhere
\* any more: not open, not completed, not buffered, not in a shard
Discarded ==
  { i \in 1..(next_id - 1) :
      \A t \in StoredTrajectories
               \cup UNION { Elements(completed[e]) \cup Elements(open[e]) :
                            e \in Envs } : t.id # i }

\* C5 witness: a dump discarded a trajectory and a shard holds another one
C5_Witness ==
  /\ Discarded # {}
  /\ \E p \in DOMAIN shards : ShardContent(p) # << >>

\* two spaces are the same in shape and in element type
SameSpace(a, b) == a.shape = b.shape /\ a.dtype = b.dtype

\* C6: the first environment bound fixes the reference spaces; a later bind
\* of an environment whose action or observation space differs from the
\* reference in shape or element type raises, and a bind of a matching one
\* returns, replaces the current environment and sets reset-pending
C6_BindCompatibility ==
  /\ action_space = env_action_space(train_env)
  /\ observation_space = env_observation_space(train_env)
  /\ [][\A e \in Envs :
          SetTrainEnv(e) =>
            /\ action_space' = action_space
            /\ observation_space' = observation_space
            /\ IF /\ SameSpace(env_action_space(e), action_space)
                  /\ SameSpace(env_observation_space(e), observation_space)
                 THEN /\ last'.raised = NoError
                      /\ train_env' = e
                      /\ should_reset_train_env' = TRUE
                 ELSE last'.raised # NoError]_vars

\* C6 witness: after the train_epoch hook had cleared reset-pending, a bind
\* of a second, matching environment succeeded
C6_Witness ==
  /\ last.op = "train_env" /\ last.raised = NoError
  /\ train_env = "env2"
  /\ should_reset_train_env
  /\ epoch > 0

IndicateDoneStep == IndicateDone \/ TLIndicateDone

\* C7: an indicate_done call that returns writes the marker of the output
\* directory iff async mode is true; no other statement of training_loop
\* touches the marker, so a training_loop call that completes leaves the
\* marker present in async mode and as absent as it was in non-async mode
C7_DoneMarkerIffAsync ==
  [][/\ IndicateDoneStep =>
          /\ ~async_mode => done' = done
          /\ last'.raised # NoError => done' = done
          /\ (async_mode /\ last'.raised = NoError) =>
               done' = done \cup {output_dir}
     /\ (TLIndicateDone /\ last'.raised = NoError) =>
          (output_dir \in done' <=> (async_mode \/ output_dir \in done))
     /\ (pc # "idle" /\ ~TLIndicateDone) => done' = done]_vars

\* C7 witness: a training_loop call in async mode completed and the marker
\* exists
C7_Witness ==
  /\ last.op = "indicate_done" /\ last.in_loop /\ last.raised = NoError
  /\ pc = "idle"
  /\ async_mode
  /\ output_dir \in done

\* C8: the first thing training_loop does when reset was not performed is
\* reset with the configured output directory, which creates it; the epoch
\* counter is read and train_epoch is called only after that; when reset was
\* performed before, training_loop goes straight to reading the epoch
C8_ImplicitReset ==
  [][/\ (last.op = "training_loop" /\ last' # last) =>
          IF trainer_reset_called
            THEN /\ last'.op = "epoch"
                 /\ UNCHANGED << output_dir, dirs, trainer_reset_called >>
            ELSE /\ last'.op = "reset"
                 /\ output_dir' = output_dir
                 /\ trainer_reset_called'
                 /\ output_dir # None =>
                      /\ output_dir \in dirs'
                      /\ last'.raised = NoError
     /\ (last' # last /\ last'.in_loop /\ last'.op = "reset") =>
          /\ last.op = "training_loop"
          /\ ~trainer_reset_called
     /\ (last' # last /\ last'.in_loop
         /\ last'.op \in {"epoch", "train_epoch"}) =>
          /\ trainer_reset_called
          /\ output_dir # None => output_dir \in dirs]_vars

\* C8 witness: training_loop has just performed the reset itself, the
\* output directory exists and the epoch counter is about to be read
C8_Witness ==
  /\ last.op = "reset" /\ last.in_loop /\ last.raised = NoError
  /\ output_dir \in dirs
  /\ pc = "range"

LoopDump(c, force) ==
  c.op = "dump_trajectories" /\ c.in_loop /\ c.force = force

\* C9: the statement training_loop executes is preceded by the statement
\* the order prescribes, which has returned: train_epoch, maybe_save and the
\* non-forced dump in each iteration, then save, the forced dump, evaluate
\* iff the evaluate argument is true, flush_summaries and, last,
\* indicate_done
C9_HookOrder ==
  [][(last' # last /\ last'.in_loop) =>
       /\ last.raised = NoError
       /\ last'.op \in {"reset", "epoch", "train_epoch", "maybe_save",
                        "dump_trajectories", "save", "evaluate",
                        "flush_summaries", "indicate_done"}
       /\ last'.op = "epoch" => last.op \in {"training_loop", "reset"}
       /\ last'.op = "train_epoch" =>
            last.op = "epoch" \/ LoopDump(last, FALSE)
       /\ last'.op = "maybe_save" => last.op = "train_epoch" /\ last.in_loop
       /\ LoopDump(last', FALSE) => last.op = "maybe_save"
       /\ last'.op = "save" => last.op = "epoch" \/ LoopDump(last, FALSE)
       /\ LoopDump(last', TRUE) => last.op = "save"
       /\ last'.op = "evaluate" => LoopDump(last, TRUE) /\ tl.evaluate
       /\ last'.op = "flush_summaries" =>
            \/ last.op = "evaluate"
            \/ LoopDump(last, TRUE) /\ ~tl.evaluate
       /\ last'.op = "indicate_done" =>
            /\ last.op = "flush_summaries"
            /\ pc' = "idle"]_vars

\* C9 witness: a training_loop call that ran MaxNEpochs iterations has
\* returned from indicate_done
C9_Witness ==
  /\ last.op = "indicate_done" /\ last.in_loop /\ last.raised = NoError
  /\ pc = "idle"
  /\ epoch_advance = 1
  /\ epoch = MaxNEpochs

\* C10 as stated (for a trainer whose output directory is configured): an
\* iteration starts only when the current epoch is below n_epochs and the
\* loop is left only when the epoch has reached n_epochs, whatever the
\* train_epoch hook adds to the counter
C10_LoopWhileEpochBelow ==
  output_dir # None =>
    /\ pc = "train_epoch" => epoch < tl.n_epochs
    /\ pc = "save" => epoch >= tl.n_epochs

\* C10 amended: the loop runs over range(e0, n_epochs), built once from the
\* epoch e0 read on entry: an iteration runs only for an element of that
\* range and the loop is left after max(0, n_epochs - e0) calls of
\* train_epoch, whatever the hook adds to the counter; when the hook adds
\* exactly one per call, an iteration starts only when the epoch is below
\* n_epochs and the loop is left only when it has reached n_epochs
C10_LoopOverRange ==
  /\ pc \in {"train_epoch", "maybe_save", "dump"} =>
       tl.start <= tl.i /\ tl.i < tl.n_epochs
  /\ pc = "train_epoch" => epoch = tl.start + (tl.i - tl.start) * epoch_advance
  /\ pc = "save" =>
       epoch = tl.start + Max(0, tl.n_epochs - tl.start) * epoch_advance
  /\ epoch_advance = 1 => C10_LoopWhileEpochBelow

\* C10 witness: the loop was left after n_epochs iterations of a hook that
\* does not advance the counter
C10_Witness ==
  /\ pc = "save"
  /\ tl.n_epochs = MaxNEpochs
  /\ epoch_advance = 0
  /\ epoch < tl.n_epochs
  /\ last.op = "dump_trajectories" /\ last.in_loop

\* C11 as stated, for the state a completed training_loop call leaves: once
\* the marker exists, no step creates or rewrites a shard
C11_MarkerIsFinal ==
  [][(/\ output_dir \in done
      /\ last.op = "indicate_done" /\ last.in_loop /\ last.raised = NoError) =>
       shards' = shards]_vars

\* C11 amended: inside one training_loop call the marker is written only in
\* async mode, by indicate_done, after flush_summaries, evaluate (when
\* requested) and, before them, the forced dump have returned, and it is the
\* last thing the call does: no statement after the forced dump touches a
\* shard.  (A later call on the same instance can still write shards.)
C11_MarkerLastInCall ==
  [][/\ (pc # "idle" /\ done' # done) =>
          /\ async_mode
          /\ pc = "indicate_done" /\ pc' = "idle"
          /\ last.op = "flush_summaries" /\ last.raised = NoError
     /\ (last' # last /\ last'.in_loop /\ last'.op = "flush_summaries") =>
          /\ last.raised = NoError
          /\ last.op = "evaluate" \/ LoopDump(last, TRUE)
     /\ (last' # last /\ last'.in_loop /\ last'.op = "evaluate") =>
          LoopDump(last, TRUE) /\ last.raised = NoError
     /\ pc \in {"evaluate", "flush_summaries", "indicate_done"} =>
          shards' = shards]_vars

\* C11 witness: the marker exists and a dump_trajectories call made by the
\* caller after it has written a shard with trajectories of its own
C11_Witness ==
  /\ output_dir \in done
  /\ last.op = "dump_trajectories" /\ ~last.in_loop
  /\ last.wrote /\ last.added

\* C12: with no dump directory configured, a dump_trajectories call, forced
\* or not, returns without raising and leaves the buffer, the store's
\* completed set, its open trajectories, the directories and the shard
\* files as they were
C12_NoDumpDirNoEffect ==
  [][\A force \in BOOLEAN :
       (DumpStep(force) /\ trajectory_dump_dir = None) =>
         /\ last'.op = "dump_trajectories" /\ last'.force = force
         /\ last'.raised = NoError
         /\ ~last'.wrote
         /\ UNCHANGED << trajectory_buffer, completed, open, dirs, shards >>]_vars

\* C12 witness: a forced dump without dump directory has returned and the
\* store still holds a completed and an open trajectory, both with actions
C12_Witness ==
  /\ trajectory_dump_dir = None
  /\ last.op = "dump_trajectories" /\ last.force /\ last.raised = NoError
  /\ \E t \in Elements(completed[train_env]) : NonDegenerate(t)
  /\ \E t \in Elements(open[train_env]) : NonDegenerate(t)
  /\ shards = << >> /\ dirs = {}

\* the step is a call of a hook, by the caller or by training_loop
HookStep ==
  \/ \E h \in Hooks : CallHook(h)
  \/ TrainEpoch
  \/ TLRange \/ TLTrainEpoch \/ TLMaybeSave \/ TLSave \/ TLEvaluate
  \/ TLFlushSummaries

C14_ResetFlagImpliesOutputDir ==
  /\ trainer_reset_called => (output_dir # None /\ output_dir \in dirs)
  /\ pc = "train_epoch" => output_dir # None

\* C15: a bind of an environment whose observation space or action space
\* differs from the reference raises and leaves the current environment,
\* the reference spaces and reset-pending as they were
C15_RejectedBindChangesNothing ==
  [][\A e \in Envs :
       (/\ SetTrainEnv(e)
        /\ \/ ~SameSpace(env_observation_space(e), observation_space)
           \/ ~SameSpace(env_action_space(e), action_space)) =>
         /\ last'.op = "train_env" /\ last'.raised = "AssertionError"
         /\ train_env' = train_env
         /\ action_space' = action_space
         /\ observation_space' = observation_space
         /\ should_reset_train_env' = should_reset_train_env]_vars

\* C15 witness: after a second environment was bound and the train_epoch
\* hook cleared reset-pending, a bind was rejected: the second environment
\* is still bound and reset-pending is still false
C15_Witness ==
  /\ last.op = "train_env" /\ last.raised = "AssertionError"
  /\ train_env = "env2"
  /\ ~should_reset_train_env

\* C16: the reference action and observation spaces are those of the first
\* environment bound and no step reassigns them, and after every step the
\* spaces of the bound training environment equal the reference spaces in
\* shape and element type
C16_ReferenceSpacesFixed ==
  /\ action_space = env_action_space(train_env)
  /\ observation_space = env_observation_space(train_env)
  /\ [][/\ action_space' = action_space
        /\ observation_space' = observation_space
        /\ SameSpace(env_action_space(train_env'), action_space')
        /\ SameSpace(env_observation_space(train_env'),
                     observation_space')]_vars

\* C16 witness: a second environment was bound and a later bind was
\* rejected; the second environment is bound, reset-pending is set
C16_Witness ==
  /\ last.op = "train_env" /\ last.raised = "AssertionError"
  /\ train_env = "env2"
  /\ should_reset_train_env
  /\ action_space = env_action_space("env1")
  /\ observation_space = env_observation_space("env1")

\* sequence a is a prefix of sequence b
IsPrefix(a, b) == Len(a) <= Len(b) /\ SubSeq(b, 1, Len(a)) = a

\* C17: no step removes a shard or a trajectory from a shard: every shard
\* is still there after the step and its previous content is a prefix of
\* its new content; a dump touches no shard but that of the current epoch
C17_ShardsOnlyGrow ==
  [][/\ \A p \in DOMAIN shards :
          /\ p \in DOMAIN shards'
          /\ IsPrefix(ShardContent(p), ShardContent(p)')
     /\ \A force \in BOOLEAN :
          DumpStep(force) =>
            LET cur == shard_path(trajectory_dump_dir, epoch)
            IN /\ DOMAIN shards' \subseteq DOMAIN shards \cup {cur}
               /\ \A p \in DOMAIN shards \ {cur} : shards'[p] = shards[p]]_vars

\* C17 witness: a dump has added trajectories of its own to a shard that
\* held some already, while another epoch's shard exists
C17_Witness ==
  /\ last.op = "dump_trajectories" /\ last.wrote /\ last.added
  /\ last.merged # "no"
  /\ Len(ShardContent(shard_path(trajectory_dump_dir, epoch))) = MaxTrajectories
  /\ Cardinality(DOMAIN shards) >= 2

\* C18: with a dump directory configured, when a dump_trajectories call
\* returns, the store's completed set is empty and the buffer is empty or
\* holds fewer trajectories than the minimum per shard; the buffer is
\* non-empty only after a non-forced call whose buffered count was below
\* the minimum
C18_AfterDumpBufferBelowMinimum ==
  [][\A force \in BOOLEAN :
       (/\ DumpStep(force) /\ trajectory_dump_dir # None
        /\ last'.raised = NoError) =>
         /\ completed'[train_env] = << >>
         /\ \/ trajectory_buffer' = << >>
            \/ Len(trajectory_buffer') < min_count_per_shard
         /\ trajectory_buffer' # << >> =>
              /\ ~force
              /\ ~last'.wrote
              /\ Len(Contribution(FALSE)) < min_count_per_shard]_vars

\* C18 witness: a non-forced dump found the buffered count at the minimum,
\* wrote the shard and returned with the buffer and the completed set empty
C18_Witness ==
  /\ last.op = "dump_trajectories" /\ ~last.force /\ last.raised = NoError
  /\ last.wrote /\ last.added
  /\ trajectory_buffer = << >>
  /\ completed[train_env] = << >>
  /\ min_count_per_shard = MaxMinCount
  /\ \E p \in DOMAIN shards : Len(ShardContent(p)) = min_count_per_shard

\* C19: a training_loop call that finds the epoch at or above n_epochs
\* goes from reading the epoch straight to save, so it calls no train_epoch,
\* no maybe_save and no non-forced dump, and then runs save, the forced dump
\* (which, with a dump directory, leaves a shard for the current epoch that
\* starts with what that shard held before), evaluate iff requested,
\* flush_summaries and indicate_done, each as soon as the one before it has
\* returned
C19_EmptyRangeStillFinalises ==
  [][/\ (TLRange /\ last'.raised = NoError /\ epoch >= tl.n_epochs) =>
          /\ pc' = "save"
          /\ tl'.start = epoch /\ tl'.n_epochs = tl.n_epochs
     /\ (pc \notin {"idle", "reset", "range"} /\ tl.start >= tl.n_epochs) =>
          /\ pc \in {"save", "final_dump", "evaluate", "flush_summaries",
                     "indicate_done"}
          /\ last'.in_loop
          /\ last'.op = IF pc = "final_dump" THEN "dump_trajectories" ELSE pc
          /\ pc = "final_dump" =>
               /\ last'.force
               /\ (trajectory_dump_dir # None /\ last'.raised = NoError) =>
                    LET cur == shard_path(trajectory_dump_dir, epoch)
                    IN /\ cur \in DOMAIN shards'
                       /\ IsPrefix(IF cur \in DOMAIN shards
                                     THEN ShardContent(cur) ELSE << >>,
                                   ShardContent(cur)')
          /\ last'.raised = NoError =>
               pc' = CASE pc = "save" -> "final_dump"
                       [] pc = "final_dump" ->
                            IF tl.evaluate THEN "evaluate"
                            ELSE "flush_summaries"
                       [] pc = "evaluate" -> "flush_summaries"
                       [] pc = "flush_summaries" -> "indicate_done"
                       [] OTHER -> "idle"]_vars

\* C19 witness: a training_loop call with evaluate requested and a positive
\* n_epochs that the epoch had already reached on entry has run save, the
\* forced dump, evaluate and flush_summaries, the shard of the current epoch
\* holds a trajectory, and indicate_done is next
C19_Witness ==
  /\ pc = "indicate_done"
  /\ tl.n_epochs > 0 /\ tl.start >= tl.n_epochs
  /\ tl.evaluate
  /\ epoch = tl.start
  /\ last.op = "flush_summaries" /\ last.in_loop /\ last.raised = NoError
  /\ trajectory_dump_dir # None
  /\ ShardContent(shard_path(trajectory_dump_dir, epoch)) # << >>

====
